---- MODULE Spec2Model ----
(***************************************************************************)
(* LDAPPasswordProvider (synapse_ldap_password_provider.py).               *)
(*                                                                         *)
(* check_password is a Twisted inlineCallbacks generator: the code between *)
(* two yields runs on the reactor thread without interruption, and every   *)
(* yield (a directory call handed to a worker thread, or an account-store  *)
(* call) is a point where other check_password calls may run.  One action  *)
(* of the model is one such resumption: it receives the outcome of the     *)
(* pending call and runs the code up to the next yield or to the return.   *)
(*                                                                         *)
(* Text (user ids, local parts, addresses) is a sequence of one-character  *)
(* strings, so that lower(), split() and slicing are computed.             *)
(***************************************************************************)
EXTENDS Integers, Sequences, FiniteSets, TLC

\* ------------------------------------------------------------------ bounds

\* Number of check_password calls that may be in flight at once.
NumCalls == 2
\* Largest value of time.time().
MaxTime == 2
\* account_lockout_policy['attemps'] of the configuration.
Attemps == 1
\* account_lockout_policy['locktime_s'] of the configuration.
LockTime == 1
\* Number of check_password calls issued in one behaviour: enough to reach
\* the lockout and to make one more call.
MaxCalls == Attemps + 1

Calls == 1..NumCalls

\* -------------------------------------------------------------------- text

\* str.lower() on one character of the alphabet used by the inputs.
LowerChar(c) ==
    CASE c = "A" -> "a"
      [] c = "B" -> "b"
      [] c = "M" -> "m"
      [] c = "H" -> "h"
      [] OTHER -> c

\* str.lower()
Lower(s) == [i \in 1..Len(s) |-> LowerChar(s[i])]

\* Index of the first ":" of s, or Len(s) + 1 when there is none.
FirstColon(s) ==
    IF \E i \in 1..Len(s) : s[i] = ":"
    THEN CHOOSE i \in 1..Len(s) : s[i] = ":" /\ \A j \in 1..(i - 1) : s[j] # ":"
    ELSE Len(s) + 1

\* s.split(":", 1)[0]
SplitHead(s) == SubSeq(s, 1, FirstColon(s) - 1)

\* s[1:]
DropFirst(s) == SubSeq(s, 2, Len(s))

\* user_id.lower().split(":", 1)[0][1:]
LocalPartOf(user_id) == DropFirst(SplitHead(Lower(user_id)))

\* The user id the homeserver gives the account registered for a local part.
RegisteredId(localpart) == <<"@">> \o localpart \o <<":", "h">>

\* ------------------------------------------------------------------ inputs

UserIds ==
    { <<"@", "A", ":", "h">>,
      <<"@", "b", ":", "h">>,
      <<"@", ":", "h">> }

Passwords == { "", "secret" }

LocalParts == { LocalPartOf(u) : u \in UserIds }

\* Values of the directory attributes mapped to name, mail and msisdn.
NameVals == { <<>>, <<"Alice">> }
MailVals == { <<>>, << <<"M">> >> }
MsisdnVals == { <<>>, << <<"7">> >> }

\* A directory entry as returned by the final attribute search: the values of
\* the requested attributes, and the requested attributes the response does
\* not carry at all (a lookup of these raises KeyError).
Entries ==
    { [name |-> n, mail |-> m, msisdn |-> s, absent |-> a] :
        n \in NameVals, m \in MailVals, s \in MsisdnVals,
        a \in { {}, {"name"}, {"mail"}, {"msisdn"} } }

\* ------------------------------------------------------------------- state

VARIABLES
    cfg,                \* the configuration read by __init__
    bad_login_attemps,  \* self.bad_login_attemps: local part -> [count, ts]
    clock,              \* the last value time.time() returned
    started,            \* number of check_password calls issued so far
    calls,              \* the frames of the check_password calls
    users,              \* account store: registered user ids
    threepids           \* account store: contact-method records

vars == <<cfg, bad_login_attemps, clock, started, calls, users, threepids>>

\* The configurations parse_config can produce: mode is 'search' iff bind_dn is
\* given; attributes always holds uid and name, and may hold mail and msisdn.
Configs ==
    [ mode : {"simple", "search"},
      start_tls : BOOLEAN,
      alp_exists : BOOLEAN,
      attemps : {Attemps},
      locktime_s : {LockTime},
      mail : BOOLEAN,
      msisdn : BOOLEAN ]

\* A frame of check_password before the call is made.
IdleFrame ==
    [ pc |-> "idle",
      arg |-> <<>>,          \* the user_id argument as passed
      user_id |-> <<>>,      \* the local variable user_id
      password |-> "",
      localpart |-> <<>>,
      now |-> 0,
      which |-> "none",      \* the connection `conn` names: "svc" or "usr"
      after |-> "none",      \* why conn.unbind is pending
      svc |-> "none",        \* connection made with the configured bind_dn
      usr |-> "none",        \* connection made with the user's credential
      name |-> <<>>,         \* <<>> is None
      mails |-> <<>>,
      msisdns |-> <<>>,
      absent |-> {},
      idx |-> 0,
      mail_bound |-> FALSE,  \* whether the local variable `mail` is bound
      result |-> "none",
      ops |-> <<>> ]         \* directory and account-store calls made so far

Init ==
    /\ cfg \in Configs
    /\ bad_login_attemps = [l \in {} |-> [count |-> 0, ts |-> 0]]
    /\ clock = 0
    /\ started = 0
    /\ calls = [p \in Calls |-> IdleFrame]
    /\ users = {}
    /\ threepids = [k \in {} |-> <<>>]

\* ---------------------------------------------------------- lockout policy

\* IsLocked with the count compared by > instead of >=.
IsLockedStrict(map, localpart, now) ==
    /\ localpart \in DOMAIN map
    /\ map[localpart].count > cfg.attemps
    /\ now <= map[localpart].ts + cfg.locktime_s

\* Lines 88-92: the condition under which check_password returns False
\* before any directory call.
IsLocked(map, localpart, now) ==
    /\ localpart \in DOMAIN map
    /\ map[localpart].count >= cfg.attemps
    /\ now <= map[localpart].ts + cfg.locktime_s

\* RecordFailure refreshing the timestamp of an entry without counting.
RecordFailureLost(map, localpart, now) ==
    IF cfg.alp_exists
    THEN IF localpart \in DOMAIN map
         THEN [map EXCEPT ![localpart] = [count |-> @.count, ts |-> now]]
         ELSE [l \in DOMAIN map \cup {localpart} |->
                 IF l = localpart THEN [count |-> 1, ts |-> now] ELSE map[l]]
    ELSE map

\* RecordFailure starting the count again at 1 when the window of the entry
\* has expired.
RecordFailureReset(map, localpart, now) ==
    IF cfg.alp_exists
    THEN IF localpart \in DOMAIN map /\ now <= map[localpart].ts + cfg.locktime_s
         THEN [map EXCEPT ![localpart] = [count |-> @.count + 1, ts |-> now]]
         ELSE [l \in DOMAIN map \cup {localpart} |->
                 IF l = localpart THEN [count |-> 1, ts |-> now] ELSE map[l]]
    ELSE map

\* RecordFailure without the `if self.ldap_alp_exists` of lines 124 and 145.
RecordFailureUngated(map, localpart, now) ==
    IF localpart \in DOMAIN map
    THEN [map EXCEPT ![localpart] = [count |-> @.count + 1, ts |-> now]]
    ELSE [l \in DOMAIN map \cup {localpart} |->
            IF l = localpart THEN [count |-> 1, ts |-> now] ELSE map[l]]

\* Lines 124-132 (and 145-153): the failure bookkeeping.
RecordFailure(map, localpart, now) ==
    IF cfg.alp_exists
    THEN IF localpart \in DOMAIN map
         THEN [map EXCEPT ![localpart] = [count |-> @.count + 1, ts |-> now]]
         ELSE [l \in DOMAIN map \cup {localpart} |->
                 IF l = localpart THEN [count |-> 1, ts |-> now] ELSE map[l]]
    ELSE map

\* Lines 279-280: del self.bad_login_attemps[localpart]
ClearFailures(map, localpart) ==
    [l \in DOMAIN map \ {localpart} |-> map[l]]

\* ------------------------------------------------------------ frame helpers

Op(name, on, out) == [op |-> name, on |-> on, out |-> out]

Did(f, name, on, out) == [f EXCEPT !.ops = Append(@, Op(name, on, out))]

\* defer.returnValue(res), or an exception leaving check_password.
Return(p, f, res) ==
    calls' = [calls EXCEPT ![p] = [f EXCEPT !.pc = "done", !.result = res]]

\* Lines 83, 290 and 294-296: defer.returnValue(False) with no bookkeeping.
Rejected(p, f) ==
    /\ Return(p, f, "False")
    /\ UNCHANGED bad_login_attemps

\* LockedOut refreshing the timestamp of the entry on a rejected attempt.
LockedOutRefreshing(p, f) ==
    /\ Return(p, f, "False")
    /\ bad_login_attemps' =
         [bad_login_attemps EXCEPT ![f.localpart] = [@ EXCEPT !.ts = f.now]]

\* Lines 93-99: the user is locked; log it and return False.
LockedOut(p, f) ==
    /\ Return(p, f, "False")
    /\ UNCHANGED bad_login_attemps

\* EmptyPassword without the check of line 82.
EmptyPasswordUnchecked(password) == FALSE

\* Line 82: `not password`
EmptyPassword(password) == password = ""

\* OneEntry accepting any non-empty result.
OneEntryOrMore(n) == n >= 1

\* OneEntry accepting an empty result as well.
OneEntryOrNone(n) == n <= 1

\* Lines 202 and 478: len(responses) == 1
OneEntry(n) == n = 1

\* AuthFailed without the except clauses of lines 400-402 and 502-504: an
\* exception of a directory call leaves check_password.
AuthFailedUncaught(p, f) ==
    IF f.ops[Len(f.ops)].out = "raise"
    THEN /\ Return(p, f, "LDAPException")
         /\ UNCHANGED bad_login_attemps
    ELSE /\ Return(p, f, "False")
         /\ bad_login_attemps' = RecordFailure(bad_login_attemps, f.localpart, f.now)

\* Lines 123-133 and 144-154: the authentication method returned (False, None).
AuthFailed(p, f) ==
    /\ Return(p, f, "False")
    /\ bad_login_attemps' = RecordFailure(bad_login_attemps, f.localpart, f.now)

SetConn(f, state) ==
    IF f.which = "svc" THEN [f EXCEPT !.svc = state] ELSE [f EXCEPT !.usr = state]

\* Concurrent callers: the calls are for one account, the directory holds
\* one entry for it, the lockout policy is configured, StartTLS is off and
\* mail is the only optional attribute mapped.
ConcUserIds == { <<"@", "A", ":", "h">> }

ConcEntries ==
    { [name |-> <<"Alice">>, mail |-> << <<"M">> >>, msisdn |-> <<>>,
       absent |-> {}] }

ConcConfigs ==
    { c \in Configs : c.alp_exists /\ ~c.start_tls /\ c.mail /\ ~c.msisdn }

InitConc ==
    /\ cfg \in ConcConfigs
    /\ bad_login_attemps = [l \in {} |-> [count |-> 0, ts |-> 0]]
    /\ clock = 0
    /\ started = 0
    /\ calls = [p \in Calls |-> IdleFrame]
    /\ users = {}
    /\ threepids = [k \in {} |-> <<>>]

\* ------------------------------------------------- check_password: entry

\* Lines 82-116 (or 82-137), up to the first yield: the empty-password
\* return, the local part, the lockout check, ldap3.Server(...), and the
\* hand-over of the ldap3.Connection constructor to a worker thread.
\* Frames are interchangeable, so a call takes the first frame never used or
\* a frame whose call has returned.
\* now is the value time.time() returns at line 87 (the clock does not run
\* backwards); server_ok is FALSE when ldap3.Server raises an LDAPException.
Start(p, user_id, password, now, server_ok) ==
    /\ calls[p].pc \in {"idle", "done"}
    /\ \A q \in 1..(p - 1) : calls[q].pc # "idle"
    /\ started < MaxCalls
    /\ started' = started + 1
    /\ now >= clock
    /\ clock' = IF EmptyPassword(password) THEN clock ELSE now
    /\ UNCHANGED <<cfg, users, threepids>>
    /\ LET f0 == [IdleFrame EXCEPT !.arg = user_id, !.password = password]
           f1 == [f0 EXCEPT !.user_id = Lower(user_id),
                            !.localpart = LocalPartOf(user_id),
                            !.now = now]
       IN  IF EmptyPassword(password)
           THEN Rejected(p, f0)
           ELSE IF IsLocked(bad_login_attemps, f1.localpart, f1.now)
           THEN LockedOut(p, f1)
           ELSE IF ~server_ok
           THEN Rejected(p, Did(f1, "Server", "none", "raise"))
           ELSE /\ calls' = [calls EXCEPT ![p] =
                      [Did(f1, "Server", "none", "ok") EXCEPT
                          !.pc = "connect",
                          !.which = IF cfg.mode = "simple" THEN "usr" ELSE "svc"]]
                /\ UNCHANGED bad_login_attemps

\* ------------------------------------- _ldap_simple_bind and the service bind

\* Lines 369-374 and 422-427: ldap3.Connection(...) in a worker thread.
Connect(p, ok) ==
    /\ calls[p].pc = "connect"
    /\ UNCHANGED <<cfg, clock, started, users, threepids>>
    /\ LET f == calls[p]
       IN  IF ok
           THEN /\ calls' = [calls EXCEPT ![p] =
                      [SetConn(Did(f, "Connection", f.which, "ok"), "created") EXCEPT
                          !.pc = IF cfg.start_tls THEN "open" ELSE "bind"]]
                /\ UNCHANGED bad_login_attemps
           ELSE AuthFailed(p, Did(f, "Connection", f.which, "raise"))

\* Open going on to conn.bind without the conn.start_tls of lines 382 and 435.
OpenThenBind(p, ok) ==
    /\ calls[p].pc = "open"
    /\ UNCHANGED <<cfg, clock, started, users, threepids>>
    /\ LET f == calls[p]
       IN  IF ok
           THEN /\ calls' = [calls EXCEPT ![p] =
                      [SetConn(Did(f, "open", f.which, "ok"), "open") EXCEPT
                          !.pc = "bind"]]
                /\ UNCHANGED bad_login_attemps
           ELSE AuthFailed(p, Did(f, "open", f.which, "raise"))

\* Lines 381 and 434: conn.open
Open(p, ok) ==
    /\ calls[p].pc = "open"
    /\ UNCHANGED <<cfg, clock, started, users, threepids>>
    /\ LET f == calls[p]
       IN  IF ok
           THEN /\ calls' = [calls EXCEPT ![p] =
                      [SetConn(Did(f, "open", f.which, "ok"), "open") EXCEPT
                          !.pc = "start_tls"]]
                /\ UNCHANGED bad_login_attemps
           ELSE AuthFailed(p, Did(f, "open", f.which, "raise"))

\* Lines 382 and 435: conn.start_tls
StartTls(p, ok) ==
    /\ calls[p].pc = "start_tls"
    /\ UNCHANGED <<cfg, clock, started, users, threepids>>
    /\ LET f == calls[p]
       IN  IF ok
           THEN /\ calls' = [calls EXCEPT ![p] =
                      [SetConn(Did(f, "start_tls", f.which, "ok"), "tls") EXCEPT
                          !.pc = "bind"]]
                /\ UNCHANGED bad_login_attemps
           ELSE AuthFailed(p, Did(f, "start_tls", f.which, "raise"))

\* Lines 389-397 and 442-447: conn.bind; out is "True", "False" or "raise".
\* A successful user bind returns (True, conn) to check_password, which goes
\* on to line 188 and hands the attribute search to a worker thread.
Bind(p, out) ==
    /\ calls[p].pc = "bind"
    /\ UNCHANGED <<cfg, clock, started, users, threepids>>
    /\ LET f == Did(calls[p], "bind", calls[p].which, out)
       IN  CASE out = "True" ->
                  /\ calls' = [calls EXCEPT ![p] =
                        [SetConn(f, "bound") EXCEPT
                            !.pc = IF f.which = "usr" THEN "attr_search" ELSE "search"]]
                  /\ UNCHANGED bad_login_attemps
             [] out = "False" ->
                  /\ calls' = [calls EXCEPT ![p] =
                        [SetConn(f, "open") EXCEPT
                            !.pc = "unbind", !.after = "bind_failed"]]
                  /\ UNCHANGED bad_login_attemps
             [] OTHER -> AuthFailed(p, f)

\* Lines 465-476: conn.search under the service bind; n is the number of
\* searchResEntry responses, or -1 when the search raises.
Search(p, n) ==
    /\ calls[p].pc = "search"
    /\ UNCHANGED <<cfg, clock, started, users, threepids>>
    /\ LET f == calls[p]
       IN  IF n < 0
           THEN AuthFailed(p, Did(f, "search", "svc", "raise"))
           ELSE /\ calls' = [calls EXCEPT ![p] =
                      [Did(f, "search", "svc", IF n = 1 THEN "one" ELSE "not_one") EXCEPT
                          !.pc = "unbind",
                          !.after = IF OneEntry(n) THEN "found" ELSE "not_found"]]
                /\ UNCHANGED bad_login_attemps

\* Lines 397-398, 447-448, 482-485 and 499-500: conn.unbind, then either the
\* rejected return or, after a search with one result, the user's bind.
Unbind(p, ok) ==
    /\ calls[p].pc = "unbind"
    /\ UNCHANGED <<cfg, clock, started, users, threepids>>
    /\ LET f == calls[p]
       IN  IF ~ok
           THEN AuthFailed(p, Did(f, "unbind", f.which, "raise"))
           ELSE LET g == SetConn(Did(f, "unbind", f.which, "ok"), "unbound")
                IN  IF f.after = "found"
                    THEN /\ calls' = [calls EXCEPT ![p] =
                               [g EXCEPT !.pc = "connect", !.which = "usr",
                                         !.after = "none"]]
                         /\ UNCHANGED bad_login_attemps
                    ELSE AuthFailed(p, g)

\* -------------------------------------------- check_password: reconciliation

\* Lines 274-281: the final log line reads the loop variable `mail`, which is
\* bound only if the loop of line 221 ran at least once.
Finish(f) ==
    [f EXCEPT !.pc = IF f.mail_bound THEN "accept" ELSE "UnboundLocalError"]

\* Line 248: the next iteration of the msisdn loop, or the code after it.
NextMsisdn(f, i) ==
    IF i <= Len(f.msisdns)
    THEN [f EXCEPT !.pc = "get_msisdn", !.idx = i]
    ELSE Finish(f)

\* Lines 247-248
EnterMsisdn(f) ==
    IF cfg.msisdn
    THEN IF "msisdn" \in f.absent
         THEN [f EXCEPT !.pc = "KeyError"]
         ELSE NextMsisdn(f, 1)
    ELSE Finish(f)

\* Line 221: the next iteration of the mail loop, or the code after it.
NextMail(f, i) ==
    IF i <= Len(f.mails)
    THEN [f EXCEPT !.pc = "get_email", !.idx = i, !.mail_bound = TRUE]
    ELSE EnterMsisdn(f)

\* Lines 220-221
EnterMail(f) ==
    IF cfg.mail
    THEN IF "mail" \in f.absent
         THEN [f EXCEPT !.pc = "KeyError"]
         ELSE NextMail(f, 1)
    ELSE EnterMsisdn(f)

\* Lines 216-218
EnterName(f) ==
    IF f.name # <<>>
    THEN [f EXCEPT !.pc = "set_profile_displayname"]
    ELSE EnterMail(f)

\* The frame reached the next yield, the accepting return of lines 279-281,
\* or an exception that no handler of check_password catches.
Resume(p, f) ==
    CASE f.pc = "accept" ->
           /\ Return(p, f, "True")
           /\ bad_login_attemps' = ClearFailures(bad_login_attemps, f.localpart)
      [] f.pc \in {"KeyError", "UnboundLocalError"} ->
           /\ Return(p, f, f.pc)
           /\ UNCHANGED bad_login_attemps
      [] OTHER ->
           /\ calls' = [calls EXCEPT ![p] = f]
           /\ UNCHANGED bad_login_attemps

\* The attributes the search of line 188 asks for.
Requested == {"name"} \cup (IF cfg.mail THEN {"mail"} ELSE {})
                      \cup (IF cfg.msisdn THEN {"msisdn"} ELSE {})

\* Lines 188-210 and 282-296: the final attribute search on the connection
\* bound with the user's credential.  n is the number of searchResEntry
\* responses, or -1 when the search raises; e is the entry when n = 1.
AttrSearch(p, n, e) ==
    /\ calls[p].pc = "attr_search"
    /\ UNCHANGED <<cfg, clock, started, users, threepids>>
    /\ LET f == calls[p]
       IN  IF n < 0
           THEN Rejected(p, Did(f, "search", "usr", "raise"))
           ELSE IF ~OneEntry(n)
           THEN Rejected(p, Did(f, "search", "usr", "not_one"))
           ELSE /\ UNCHANGED bad_login_attemps
                /\ calls' = [calls EXCEPT ![p] =
                    [Did(f, "search", "usr", IF n = 1 THEN "one" ELSE "not_one") EXCEPT
                        !.pc = "check_user_exists",
                        !.name = IF "name" \in e.absent \/ e.name = <<>>
                                 THEN <<>> ELSE <<e.name[1]>>,
                        !.mails = IF cfg.mail /\ "mail" \notin e.absent
                                  THEN e.mail ELSE <<>>,
                        !.msisdns = IF cfg.msisdn /\ "msisdn" \notin e.absent
                                    THEN e.msisdn ELSE <<>>,
                        !.absent = e.absent \cap (Requested \ {"name"})]]

\* CheckUserExists going on to the attribute writes without the registration
\* of lines 212-214.
CheckUserExistsOnly(p) ==
    /\ calls[p].pc = "check_user_exists"
    /\ UNCHANGED <<cfg, clock, started, users, threepids>>
    /\ LET f == calls[p]
       IN  Resume(p, EnterName(Did(f, "check_user_exists", "store",
                                   IF f.user_id \in users THEN "True" ELSE "False")))

\* Lines 210-216: account_handler.check_user_exists(user_id)
CheckUserExists(p) ==
    /\ calls[p].pc = "check_user_exists"
    /\ UNCHANGED <<cfg, clock, started, users, threepids>>
    /\ LET f == calls[p]
       IN  IF f.user_id \in users
           THEN Resume(p, EnterName(Did(f, "check_user_exists", "store", "True")))
           ELSE /\ calls' = [calls EXCEPT ![p] =
                      [Did(f, "check_user_exists", "store", "False") EXCEPT
                          !.pc = "register"]]
                /\ UNCHANGED bad_login_attemps

\* Lines 212-216: account_handler.register(localpart=localpart)
Register(p) ==
    /\ calls[p].pc = "register"
    /\ users' = users \cup {RegisteredId(calls[p].localpart)}
    /\ UNCHANGED <<cfg, clock, started, threepids>>
    /\ Resume(p, EnterName([Did(calls[p], "register", "store", "ok") EXCEPT
                               !.user_id = RegisteredId(calls[p].localpart)]))

\* Lines 218-221: store.set_profile_displayname(localpart, name)
SetDisplayname(p) ==
    /\ calls[p].pc = "set_profile_displayname"
    /\ UNCHANGED <<cfg, clock, started, users, threepids>>
    /\ Resume(p, EnterMail(Did(calls[p], "set_profile_displayname", "store",
                                calls[p].name[1])))

\* store.get_user_id_by_threepid(medium, address): the owner, <<>> for None.
OwnerOf(medium, address) ==
    IF <<medium, address>> \in DOMAIN threepids
    THEN threepids[<<medium, address>>] ELSE <<>>

\* store.user_add_threepid(user_id, medium, address, ...)
AddThreepid(map, user_id, medium, address) ==
    [k \in DOMAIN map \cup {<<medium, address>>} |->
        IF k = <<medium, address>> THEN user_id ELSE map[k]]

\* Lines 224-229 and 237-245: get_user_id_by_threepid('email', mail.lower())
GetEmailOwner(p) ==
    /\ calls[p].pc = "get_email"
    /\ UNCHANGED <<cfg, clock, started, users, threepids>>
    /\ LET f == calls[p]
           owner == OwnerOf("email", Lower(f.mails[f.idx]))
       IN  IF owner = <<>>
           THEN /\ calls' = [calls EXCEPT ![p] =
                      [Did(f, "get_user_id_by_threepid", "email", "None") EXCEPT
                          !.pc = "add_email"]]
                /\ UNCHANGED bad_login_attemps
           ELSE Resume(p, NextMail(Did(f, "get_user_id_by_threepid", "email", "owned"),
                                   f.idx + 1))

\* Lines 230-236: user_add_threepid(user_id, 'email', mail, ...)
AddEmail(p) ==
    /\ calls[p].pc = "add_email"
    /\ threepids' = AddThreepid(threepids, calls[p].user_id, "email",
                                calls[p].mails[calls[p].idx])
    /\ UNCHANGED <<cfg, clock, started, users>>
    /\ Resume(p, NextMail(Did(calls[p], "user_add_threepid", "email", "ok"),
                          calls[p].idx + 1))

\* Lines 251-256 and 264-272: get_user_id_by_threepid('msisdn', msisdn)
GetMsisdnOwner(p) ==
    /\ calls[p].pc = "get_msisdn"
    /\ UNCHANGED <<cfg, clock, started, users, threepids>>
    /\ LET f == calls[p]
           owner == OwnerOf("msisdn", f.msisdns[f.idx])
       IN  IF owner = <<>>
           THEN /\ calls' = [calls EXCEPT ![p] =
                      [Did(f, "get_user_id_by_threepid", "msisdn", "None") EXCEPT
                          !.pc = "add_msisdn"]]
                /\ UNCHANGED bad_login_attemps
           ELSE Resume(p, NextMsisdn(Did(f, "get_user_id_by_threepid", "msisdn", "owned"),
                                     f.idx + 1))

\* Lines 257-263: user_add_threepid(user_id, 'msisdn', msisdn, ...)
AddMsisdn(p) ==
    /\ calls[p].pc = "add_msisdn"
    /\ threepids' = AddThreepid(threepids, calls[p].user_id, "msisdn",
                                calls[p].msisdns[calls[p].idx])
    /\ UNCHANGED <<cfg, clock, started, users>>
    /\ Resume(p, NextMsisdn(Did(calls[p], "user_add_threepid", "msisdn", "ok"),
                            calls[p].idx + 1))

\* ------------------------------------------------------------- environment

\* The resumptions of the check_password call in frame p.  ids are the user
\* ids the callers pass, entries the entries the directory may hold.
StartStep(p, ids) ==
    \E u \in ids, pw \in Passwords, now \in 0..MaxTime, ok \in BOOLEAN :
        Start(p, u, pw, now, ok)

BindSteps(p) ==
    \/ \E ok \in BOOLEAN : Connect(p, ok)
    \/ \E out \in {"True", "False", "raise"} : Bind(p, out)
    \/ \E n \in -1..2 : Search(p, n)
    \/ \E ok \in BOOLEAN : Unbind(p, ok)

TlsSteps(p) ==
    \/ \E ok \in BOOLEAN : Open(p, ok)
    \/ \E ok \in BOOLEAN : StartTls(p, ok)

AttrStep(p, entries) ==
    \E n \in -1..2, e \in entries : AttrSearch(p, n, e)

AccountSteps(p) ==
    \/ CheckUserExists(p)
    \/ Register(p)
    \/ SetDisplayname(p)
    \/ GetEmailOwner(p)
    \/ AddEmail(p)

MsisdnSteps(p) ==
    \/ GetMsisdnOwner(p)
    \/ AddMsisdn(p)

\* The caller issues one check_password call at a time.
Next ==
    \/ StartStep(1, UserIds)
    \/ BindSteps(1)
    \/ TlsSteps(1)
    \/ AttrStep(1, Entries)
    \/ AccountSteps(1)
    \/ MsisdnSteps(1)

Spec == Init /\ [][Next]_vars

\* Callers issue check_password calls concurrently, each call in a frame of
\* its own, against a provider configured without StartTLS and without an
\* msisdn attribute.
NextConc ==
    \E p \in Calls :
        \/ (calls[p].pc = "idle" /\ StartStep(p, ConcUserIds))
        \/ BindSteps(p)
        \/ AttrStep(p, ConcEntries)
        \/ AccountSteps(p)

SpecConc == InitConc /\ [][NextConc]_vars

\* The same concurrent callers against a provider whose configuration has no
\* account_lockout_policy (parse_config, lines 344-352).
NoPolicyConfigs ==
    { c \in Configs : ~c.alp_exists /\ ~c.start_tls /\ c.mail /\ ~c.msisdn }

InitNoPolicy ==
    /\ cfg \in NoPolicyConfigs
    /\ bad_login_attemps = [l \in {} |-> [count |-> 0, ts |-> 0]]
    /\ clock = 0
    /\ started = 0
    /\ calls = [p \in Calls |-> IdleFrame]
    /\ users = {}
    /\ threepids = [k \in {} |-> <<>>]

SpecNoPolicy == InitNoPolicy /\ [][NextConc]_vars

\* ================================================================ claims

\* The failure count recorded for a local part, 0 when it has no entry.
FailureCount(map, l) == IF l \in DOMAIN map THEN map[l].count ELSE 0

\* Frame p takes a new check_password call in this step (one caller).
Starts(p) ==
    /\ started' = started + 1
    /\ calls'[p].pc # "idle"
    /\ \A q \in Calls \ {p} : calls'[q] = calls[q]

\* The call in frame p returns in this step, after at least one yield.
Returns(p) ==
    /\ calls[p].pc \notin {"idle", "done"}
    /\ calls'[p].pc = "done"

\* The lockout policy holds local part l locked at time t.
LockedAt(map, l, t) ==
    /\ l \in DOMAIN map
    /\ map[l].count >= cfg.attemps
    /\ t <= map[l].ts + cfg.locktime_s

\* The call of frame f was turned away before any directory or store call.
TurnedAway(f) == f.pc = "done" /\ f.result = "False" /\ f.ops = <<>>

\* C1: the lockout entry of a local part changes only by a failed call for it
\* (created at count 1 or incremented by one, timestamp set to that call's
\* now) or by an accepted call for it (removed), so N consecutive recorded
\* failures leave count >= N; and a call for a local part whose entry has
\* count >= N, made at a time now <= ts + locktime_s, returns False whatever
\* the password.
C1_LockedAfterFailures ==
    [][ /\ \A p \in Calls :
             (/\ Starts(p)
              /\ \/ LockedAt(bad_login_attemps, calls'[p].localpart, calls'[p].now)
                 \/ /\ calls'[p].password = ""
                    /\ \E t \in 0..MaxTime :
                         LockedAt(bad_login_attemps, LocalPartOf(calls'[p].arg), t))
                => (calls'[p].pc = "done" /\ calls'[p].result = "False")
        /\ \A l \in LocalParts :
             \/ /\ l \in DOMAIN bad_login_attemps <=> l \in DOMAIN bad_login_attemps'
                /\ l \in DOMAIN bad_login_attemps
                     => bad_login_attemps'[l] = bad_login_attemps[l]
             \/ \E p \in Calls :
                  /\ Returns(p)
                  /\ calls'[p].localpart = l
                  /\ calls'[p].result = "False"
                  /\ bad_login_attemps'[l] =
                       [count |-> FailureCount(bad_login_attemps, l) + 1,
                        ts |-> calls'[p].now]
             \/ \E p \in Calls :
                  /\ Returns(p)
                  /\ calls'[p].localpart = l
                  /\ calls'[p].result = "True"
                  /\ l \notin DOMAIN bad_login_attemps'
      ]_vars

\* A call with a password was turned away while its local part was locked.
C1_Witness ==
    \E p \in Calls :
        /\ TurnedAway(calls[p])
        /\ calls[p].password # ""
        /\ LockedAt(bad_login_attemps, calls[p].localpart, calls[p].now)

\* C2: a call that finds its local part locked returns False without a
\* directory or account-store call and leaves the lockout map as it was.
C2_LockedRejectsUntouched ==
    [][ \A p \in Calls :
          (/\ Starts(p)
           /\ calls'[p].password # ""
           /\ LockedAt(bad_login_attemps, calls'[p].localpart, calls'[p].now))
          => /\ TurnedAway(calls'[p])
             /\ bad_login_attemps' = bad_login_attemps
      ]_vars

\* A call was turned away by the lockout at a time later than the recorded
\* failure, and the entry still carries the time of that failure.
C2_Witness ==
    \E p \in Calls :
        /\ TurnedAway(calls[p])
        /\ calls[p].password # ""
        /\ calls[p].localpart \in DOMAIN bad_login_attemps
        /\ bad_login_attemps[calls[p].localpart].ts < calls[p].now
        /\ calls[p].now <= bad_login_attemps[calls[p].localpart].ts + cfg.locktime_s

\* C6: a call with an empty password returns False without a directory or
\* account-store call and leaves the lockout map as it was, for every user
\* id and every state of the lockout map.
C6_EmptyPasswordRejected ==
    [][ \A p \in Calls :
          (Starts(p) /\ calls'[p].password = "")
          => /\ TurnedAway(calls'[p])
             /\ bad_login_attemps' = bad_login_attemps
      ]_vars

\* A call with an empty password was turned away while the lockout map held
\* an entry for its local part.
C6_Witness ==
    \E p \in Calls :
        /\ TurnedAway(calls[p])
        /\ calls[p].password = ""
        /\ LocalPartOf(calls[p].arg) \in DOMAIN bad_login_attemps

\* Frame f made the directory or store call `name` on `on` with outcome out.
HasOp(f, name, on, out) == \E i \in 1..Len(f.ops) : f.ops[i] = Op(name, on, out)

\* The calls of frame f made with the user's credential.
UserOps(f) == { i \in 1..Len(f.ops) : f.ops[i].on = "usr" }

\* C3 (as stated): in search mode, when the bind with the configured bind_dn
\* fails, check_password returns False and the lockout map is unchanged.
C3_ServiceBindFailureNotCounted ==
    [][ \A p \in Calls :
          (/\ Returns(p)
           /\ cfg.mode = "search"
           /\ \/ HasOp(calls'[p], "bind", "svc", "False")
              \/ HasOp(calls'[p], "bind", "svc", "raise"))
          => /\ calls'[p].result = "False"
             /\ bad_login_attemps' = bad_login_attemps
      ]_vars

\* The display-name writes of frame f.
NameWrites(f) == { i \in 1..Len(f.ops) : f.ops[i].op = "set_profile_displayname" }

\* C4 (as stated): in simple mode, for every attribute mapping and every
\* entry, a call whose user bind succeeded and whose attribute search returned
\* one entry with a name returns True, having written that name exactly once.
C4_SimpleModeAccepts ==
    \A p \in Calls :
        (/\ cfg.mode = "simple"
         /\ calls[p].pc = "done"
         /\ HasOp(calls[p], "bind", "usr", "True")
         /\ HasOp(calls[p], "search", "usr", "one")
         /\ calls[p].name # <<>>)
        => /\ calls[p].result = "True"
           /\ Cardinality(NameWrites(calls[p])) = 1
           /\ \A i \in NameWrites(calls[p]) : calls[p].ops[i].out = calls[p].name[1]

\* C5 (as stated): once a call whose credential bind succeeded and whose
\* attribute search returned exactly one entry has ended, the lockout map
\* holds no entry for its local part.
C5_AcceptanceClearsLockout ==
    \A p \in Calls :
        (/\ calls[p].pc = "done"
         /\ HasOp(calls[p], "bind", "usr", "True")
         /\ HasOp(calls[p], "search", "usr", "one"))
        => calls[p].localpart \notin DOMAIN bad_login_attemps

\* C7: in search mode, a call whose search under the service bind returned
\* zero or several entries never makes a call with the user's credential,
\* returns False, and on its return the failure is recorded for its local part
\* when a lockout policy is configured.
C7_AmbiguousSearchRejected ==
    [][ \A p \in Calls :
          HasOp(calls'[p], "search", "svc", "not_one")
          => /\ UserOps(calls'[p]) = {}
             /\ calls'[p].pc = "done" => calls'[p].result = "False"
             /\ (Returns(p) /\ cfg.alp_exists)
                  => /\ calls'[p].localpart \in DOMAIN bad_login_attemps'
                     /\ bad_login_attemps'[calls'[p].localpart] =
                          [count |-> FailureCount(bad_login_attemps,
                                                  calls'[p].localpart) + 1,
                           ts |-> calls'[p].now]
      ]_vars

\* A call whose service search did not return one entry has returned, and its
\* failure is in the lockout map.
C7_Witness ==
    \E p \in Calls :
        /\ calls[p].pc = "done"
        /\ HasOp(calls[p], "search", "svc", "not_one")
        /\ HasOp(calls[p], "unbind", "svc", "ok")
        /\ calls[p].localpart \in DOMAIN bad_login_attemps
        /\ bad_login_attemps[calls[p].localpart].ts = calls[p].now

\* C8: a call in which a directory step raised a directory exception has
\* returned False: the exception does not reach the caller.
C8_DirectoryExceptionsCaught ==
    \A p \in Calls :
        (\E i \in 1..Len(calls[p].ops) : calls[p].ops[i].out = "raise")
        => /\ calls[p].pc = "done"
           /\ calls[p].result = "False"

\* The final attribute search of a call raised, after a StartTLS upgrade and
\* a successful bind, and the call returned False.
C8_Witness ==
    \E p \in Calls :
        /\ calls[p].pc = "done"
        /\ calls[p].result = "False"
        /\ HasOp(calls[p], "start_tls", "usr", "ok")
        /\ HasOp(calls[p], "search", "usr", "raise")

\* C9 (as stated): a call whose user id yields an empty local part returns
\* False without a lockout check or a directory call.
C9_EmptyLocalPartRejected ==
    \A p \in Calls :
        (/\ calls[p].pc # "idle"
         /\ calls[p].password # ""
         /\ LocalPartOf(calls[p].arg) = <<>>)
        => TurnedAway(calls[p])

\* The authentication method of the call in frame f returned (False, None).
AuthMethodFailed(f) ==
    /\ f.pc = "done"
    /\ f.result = "False"
    /\ \E i \in 1..Len(f.ops) : f.ops[i].op = "Connection"
    /\ f.usr # "bound"

\* C10: however the calls for a local part interleave, as long as none of them
\* was accepted the recorded failure count is the number of calls that passed
\* the lockout check and failed at the directory.
C10_NoLostIncrement ==
    \A l \in LocalParts :
        (\A p \in Calls : calls[p].localpart = l => calls[p].result # "True")
        => FailureCount(bad_login_attemps, l) =
             Cardinality({ p \in Calls : /\ calls[p].localpart = l
                                         /\ AuthMethodFailed(calls[p]) })

\* Two calls for one local part, made at the same time, both passed the
\* lockout check and both failed at the directory.
C10_Witness ==
    \E p, q \in Calls :
        /\ p # q
        /\ AuthMethodFailed(calls[p])
        /\ AuthMethodFailed(calls[q])
        /\ calls[p].localpart = calls[q].localpart
        /\ calls[p].now = calls[q].now
        /\ FailureCount(bad_login_attemps, calls[p].localpart) = 2

\* The account that owns contact method <<medium, address>> in the store,
\* <<>> when none does.
Owner(medium, address) ==
    IF <<medium, address>> \in DOMAIN threepids
    THEN threepids[<<medium, address>>] ELSE <<>>

\* Frame p issues user_add_threepid for medium in this step; the value is
\* the current one of the loop over vals.
Adds(p, medium) ==
    /\ calls[p].pc = (IF medium = "email" THEN "add_email" ELSE "add_msisdn")
    /\ calls'[p].pc # calls[p].pc

\* The value frame f is about to attach for medium.
Adding(f, medium) ==
    IF medium = "email" THEN f.mails[f.idx] ELSE f.msisdns[f.idx]

\* C11 (as stated): against a store that returns the owner of an address
\* exactly as it was stored, no call attaches to its account an email that the
\* account already owns, so a second accepted call adds no email record.
C11_EmailAttachedOnce ==
    [][ \A p \in Calls :
          Adds(p, "email")
          => Owner("email", Adding(calls[p], "email")) # calls[p].user_id
      ]_vars

\* C12 (as stated): no call issues a contact-method write for an email or
\* msisdn value that an account other than the one logging in owns.
C12_ForeignContactUntouched ==
    [][ \A p \in Calls : \A medium \in {"email", "msisdn"} :
          Adds(p, medium)
          => Owner(medium, Adding(calls[p], medium)) \in {<<>>, calls[p].user_id}
      ]_vars

\* C13: with no account_lockout_policy configured the lockout map is empty in
\* every reachable state, and no call that passed a password is returned
\* False before its first directory call, whatever the number and the
\* interleaving of the failed attempts.
C13_NoPolicyNoLockout ==
    /\ DOMAIN bad_login_attemps = {}
    /\ \A p \in Calls :
          calls[p].password # "" => ~TurnedAway(calls[p])

\* C13 witness: every concurrent call has failed at the directory, and the
\* map is still empty.
C13_Witness ==
    /\ ~cfg.alp_exists
    /\ \A p \in Calls : AuthMethodFailed(calls[p])
    /\ DOMAIN bad_login_attemps = {}

\* The state of connection c ("svc" or "usr") of frame f.
ConnOf(f, c) == IF c = "svc" THEN f.svc ELSE f.usr

\* conn.unbind was called on connection c of frame f.
UnbindCalled(f, c) ==
    \E i \in 1..Len(f.ops) : f.ops[i].op = "unbind" /\ f.ops[i].on = c

\* C14 (as stated): when check_password has returned, every connection that
\* one of its bind sequences created and did not bind has had conn.unbind
\* called on it, also when open, start_tls or bind raised: no connection is
\* left behind by a failed bind.
C14_FailedBindUnbinds ==
    \A p \in Calls : \A c \in {"svc", "usr"} :
        (calls[p].pc = "done" /\ ConnOf(calls[p], c) \in {"created", "open", "tls"})
        => UnbindCalled(calls[p], c)

\* Directory call `name` on connection c is entry i of the log of frame f,
\* with outcome out.
OpAt(f, i, name, c, out) ==
    /\ f.ops[i].op = name
    /\ f.ops[i].on = c
    /\ f.ops[i].out = out

\* C15: with start_tls configured, on the service connection and on the user
\* connection alike, every conn.bind comes after a completed conn.open and a
\* completed conn.start_tls on that connection, in this order; and when
\* conn.open or conn.start_tls raises, no bind is issued on that connection
\* and check_password has returned False, not an exception.
C15_TlsBeforeBind ==
    cfg.start_tls =>
      \A p \in Calls : \A c \in {"svc", "usr"} :
        LET f == calls[p]
            n == Len(f.ops)
        IN  /\ \A i \in 1..n :
                 f.ops[i].op = "bind" /\ f.ops[i].on = c
                 => \E j \in 1..n, k \in 1..n :
                       /\ j < k /\ k < i
                       /\ OpAt(f, j, "open", c, "ok")
                       /\ OpAt(f, k, "start_tls", c, "ok")
            /\ \A i \in 1..n :
                 (OpAt(f, i, "open", c, "raise") \/ OpAt(f, i, "start_tls", c, "raise"))
                 => /\ i = n
                    /\ f.pc = "done"
                    /\ f.result = "False"
                    /\ \A j \in 1..n : ~(f.ops[j].op = "bind" /\ f.ops[j].on = c)

\* C15 witness: with start_tls configured, a call in search mode has bound
\* the service connection and then the user connection.
C15_Witness ==
    /\ cfg.start_tls
    /\ \E p \in Calls :
          /\ HasOp(calls[p], "bind", "svc", "True")
          /\ HasOp(calls[p], "bind", "usr", "True")

\* Entry i of the log of frame f is a profile or contact-method write.
IsWrite(f, i) == f.ops[i].op \in {"set_profile_displayname", "user_add_threepid"}

\* C16: in every call, a display-name or contact-method write is issued only
\* after the existence check, for an account that exists by then; when the
\* check answered that the identifier has no account, the registration request
\* lies between the check and the first write; when it answered that the
\* account exists, no registration is requested.
C16_RegisterBeforeWrites ==
    \A p \in Calls :
      LET f == calls[p]
          n == Len(f.ops)
      IN  /\ \A i \in 1..n :
               IsWrite(f, i)
               => /\ f.user_id \in users
                  /\ \E j \in 1..(i - 1) : f.ops[j].op = "check_user_exists"
          /\ \A j \in 1..n :
               OpAt(f, j, "check_user_exists", "store", "False")
               => \A i \in (j + 1)..n :
                     IsWrite(f, i)
                     => \E k \in (j + 1)..(i - 1) : f.ops[k].op = "register"
          /\ \A j \in 1..n :
               OpAt(f, j, "check_user_exists", "store", "True")
               => \A k \in 1..n : f.ops[k].op # "register"

\* C16 witness: an accepted call for an identifier without an account has
\* requested the registration and written the display name and an email.
C16_Witness ==
    \E p \in Calls :
      LET f == calls[p]
      IN  /\ f.pc = "done" /\ f.result = "True"
          /\ HasOp(f, "check_user_exists", "store", "False")
          /\ HasOp(f, "register", "store", "ok")
          /\ HasOp(f, "user_add_threepid", "email", "ok")
          /\ \E i \in 1..Len(f.ops) : f.ops[i].op = "set_profile_displayname"

\* C17: when the final attribute search on the connection bound with the
\* user's credential returns zero or several entries, check_password has
\* returned False and has called nothing of the account store: no existence
\* check, no registration, no display-name or contact-method call.
C17_AttributeSearchFailureRejects ==
    \A p \in Calls :
      LET f == calls[p]
      IN  HasOp(f, "search", "usr", "not_one")
          => /\ f.pc = "done"
             /\ f.result = "False"
             /\ \A i \in 1..Len(f.ops) :
                   f.ops[i].on \notin {"store", "email", "msisdn"}

\* C17 witness: the user's bind succeeded and the attribute search after it
\* did not return exactly one entry.
C17_Witness ==
    \E p \in Calls :
      /\ HasOp(calls[p], "bind", "usr", "True")
      /\ HasOp(calls[p], "search", "usr", "not_one")

\* C18 (as stated): under every interleaving of concurrent calls, no step
\* raises the failure count of a local part that is locked at the time of the
\* step.  clock is the latest time any call has read; the time of a step is
\* never before it and may be equal to it.
C18_NoIncrementWhileLocked ==
    [][ \A l \in DOMAIN bad_login_attemps :
          LockedAt(bad_login_attemps, l, clock)
          => FailureCount(bad_login_attemps', l) <= FailureCount(bad_login_attemps, l)
      ]_vars

\* C19 (as stated): under every interleaving of concurrent calls, no step
\* removes the lockout entry of a local part that is locked at the time of
\* the step.
C19_NoRemovalWhileLocked ==
    [][ \A l \in DOMAIN bad_login_attemps :
          LockedAt(bad_login_attemps, l, clock)
          => l \in DOMAIN bad_login_attemps'
      ]_vars

\* The entry of local part l has reached the configured count and its window
\* is over at time t.
ExpiredAt(map, l, t) ==
    /\ l \in DOMAIN map
    /\ map[l].count >= cfg.attemps
    /\ t > map[l].ts + cfg.locktime_s

\* C20: the end of the lock window does not reset the failure count.  A call
\* with a password that starts when the entry of its local part has expired is
\* not turned away and leaves the entry as it is; when the authentication of a
\* call fails and the entry of its local part has count >= attemps, the count
\* grows by one and the timestamp becomes the call's now, so that the local
\* part is locked again at that time; a count never decreases, and an entry
\* is removed only by a call for its local part that returns True.
C20_ExpiryKeepsCount ==
    [][ /\ \A p \in Calls :
             (/\ Starts(p)
              /\ calls'[p].password # ""
              /\ ExpiredAt(bad_login_attemps, calls'[p].localpart, calls'[p].now))
             => /\ calls'[p].ops # <<>>
                /\ bad_login_attemps' = bad_login_attemps
        /\ \A p \in Calls :
             LET l == calls'[p].localpart
             IN  (/\ Returns(p)
                  /\ AuthMethodFailed(calls'[p])
                  /\ l \in DOMAIN bad_login_attemps
                  /\ bad_login_attemps[l].count >= cfg.attemps)
                 => /\ bad_login_attemps'[l] =
                         [count |-> bad_login_attemps[l].count + 1,
                          ts |-> calls'[p].now]
                    /\ LockedAt(bad_login_attemps', l, calls'[p].now)
        /\ \A l \in DOMAIN bad_login_attemps :
             IF l \in DOMAIN bad_login_attemps'
             THEN bad_login_attemps'[l].count >= bad_login_attemps[l].count
             ELSE \E p \in Calls :
                     /\ Returns(p)
                     /\ calls'[p].localpart = l
                     /\ calls'[p].result = "True"
      ]_vars

\* C20 witness: a call that started after the window of its local part had
\* expired has failed, and the entry holds more failures than attemps, with
\* the timestamp of this call: the local part is locked again.
C20_Witness ==
    \E p \in Calls :
      LET f == calls[p]
      IN  /\ AuthMethodFailed(f)
          /\ f.localpart \in DOMAIN bad_login_attemps
          /\ bad_login_attemps[f.localpart].count > cfg.attemps
          /\ bad_login_attemps[f.localpart].ts = f.now
          /\ f.now > cfg.locktime_s
          /\ LockedAt(bad_login_attemps, f.localpart, f.now)

\* C21 (as stated): when check_password has returned True or False, the
\* connection on which the bind with the user's credential succeeded has been
\* unbound, on the accepted path and on the path where the final attribute
\* search returns zero or several entries.
C21_UserConnectionReleased ==
    \A p \in Calls :
        (/\ calls[p].pc = "done"
         /\ calls[p].result \in {"True", "False"}
         /\ HasOp(calls[p], "bind", "usr", "True"))
        => calls[p].usr = "unbound"

====
